---- MODULE Spec2Model ----
(***************************************************************************)
(* Model of pi-pico-ssd1351: the render program (src/src/main.rs, blocking *)
(* variant; src/embassy/src/main.rs, cooperative variant) and its          *)
(* fixed-capacity text buffer FmtBuf.                                      *)
(*                                                                         *)
(* The display driver (ssd1351, embedded-graphics) is an external crate:   *)
(* each call the program makes on it is one entry of the ghost trace       *)
(* `log`, carrying the arguments main.rs passes and the Result the call    *)
(* returned (Ok or Err, chosen nondeterministically).                      *)
(***************************************************************************)
EXTENDS Integers, Sequences, FiniteSets, TLC

VARIABLES
    variant,        \* "blocking" (src/src/main.rs) or "embassy" (src/embassy/src/main.rs)
    overflowChecks, \* build profile: TRUE = integer overflow panics, FALSE = wraps
    pc,             \* position of main
    count,          \* let mut count: u32, as two 16-bit limbs <<high, low>>
    buf,            \* FmtBuf.buf : [u8; 64], as a sequence indexed 1..64
    ptr,            \* FmtBuf.ptr : usize
    led,            \* level of the LED pin
    log,            \* ghost: the driver calls issued so far, in order
    panicCause,     \* "none", or why main panicked: "bus", "overflow", "utf8"
    rendered,       \* ghost: the counter value last formatted into buf (NoValue: none)
    ticks,          \* ghost: completed inter-tick waits
    waited,         \* ghost: length in ms of the last inter-tick wait (0: none)
    written,        \* ghost: concatenation of the strings written since new/reset
    lastOp,         \* ghost: last FmtBuf operation: "new", "reset", "write", "fmt"
    prevOp,         \* ghost: the FmtBuf operation before lastOp
    lastArg,        \* ghost: argument of the last write_str
    lastRet,        \* ghost: every write_str so far returned Ok
    access,         \* ghost: index ranges the last write_str used
    nops            \* ghost: FmtBuf operations applied by the buffer harness

vars == <<variant, overflowChecks, pc, count, buf, ptr, led, log, panicCause,
          rendered, ticks, waited, written, lastOp, prevOp, lastArg, lastRet,
          access, nops>>

mainVars == <<variant, overflowChecks, pc, count, led, log, panicCause,
              rendered, ticks, waited>>

-----------------------------------------------------------------------------
(* Bounds of the model *)

\* inter-tick waits explored from the start of a run
MaxTicks == 12
\* FmtBuf operations applied in one run of the buffer harness
MaxBufOps == 3

-----------------------------------------------------------------------------
(* Program constants *)

\* buf: [u8; 64]
Capacity == 64
\* count: u32, held as two limbs of 16 bits: <<h, l>> stands for h * 65536 + l
Limb == 65536
\* FONT_9X18_BOLD: glyph cell width and height
FontW == 9
FontH == 18
\* display.bounding_box(): the SSD1351 panel is 128 x 128
PanelW == 128
PanelH == 128
\* border_stroke: stroke_width(3)
BorderWidth == 3
\* delay.delay_ms(500) / Timer::after(Duration::from_secs(1))
BlockingDelayMs == 500
EmbassyDelayMs == 1000

Min(a, b) == IF a < b THEN a ELSE b

Rep(b, n) == [i \in 1..n |-> b]

-----------------------------------------------------------------------------
(* Text: strings are sequences of bytes *)

\* "counter: "
CounterPrefix == <<99, 111, 117, 110, 116, 101, 114, 58, 32>>
\* "Hello world!"
HelloWorld == <<72, 101, 108, 108, 111, 32, 119, 111, 114, 108, 100, 33>>
\* "Hello Rust!"
HelloRust == <<72, 101, 108, 108, 111, 32, 82, 117, 115, 116, 33>>

-----------------------------------------------------------------------------
(* u32 arithmetic on limbs *)

U32Zero == <<0, 0>>
\* u32::MAX = 4294967295
U32Max == <<Limb - 1, Limb - 1>>
\* ghost value: no counter value yet
NoValue == <<-1, -1>>

\* the u32 of a small natural number
U32Of(n) == <<n \div Limb, n % Limb>>

\* c + 1 modulo 2^32
WrappingInc(c) ==
    IF c[2] < Limb - 1 THEN <<c[1], c[2] + 1>>
    ELSE IF c[1] < Limb - 1 THEN <<c[1] + 1, 0>>
    ELSE U32Zero

\* c - 1 modulo 2^32
WrappingDec(c) ==
    IF c[2] > 0 THEN <<c[1], c[2] - 1>>
    ELSE IF c[1] > 0 THEN <<c[1] - 1, Limb - 1>>
    ELSE U32Max

\* c div 10 and c mod 10, by long division over the limbs
Div10(c) == <<c[1] \div 10, (((c[1] % 10) * Limb) + c[2]) \div 10>>
Mod10(c) == (((c[1] % 10) * Limb) + c[2]) % 10

\* c < n, for a small natural number n
U32Less(c, n) == c[1] = 0 /\ c[2] < n

\* Display for u32: the decimal digits of c, most significant first
RECURSIVE ToDigits(_)
ToDigits(c) ==
    IF U32Less(c, 10) THEN <<48 + c[2]>>
    ELSE Append(ToDigits(Div10(c)), 48 + Mod10(c))

IsCont(b) == b >= 128 /\ b <= 191

\* core::str::from_utf8: does the byte sequence s decode as UTF-8
RECURSIVE ValidUtf8(_)
ValidUtf8(s) ==
    IF Len(s) = 0 THEN TRUE
    ELSE LET b == s[1] IN
         IF b < 128 THEN ValidUtf8(Tail(s))
         ELSE IF b >= 194 /\ b <= 223
              THEN /\ Len(s) >= 2
                   /\ IsCont(s[2])
                   /\ ValidUtf8(SubSeq(s, 3, Len(s)))
         ELSE IF b >= 224 /\ b <= 239
              THEN /\ Len(s) >= 3
                   /\ IsCont(s[2])
                   /\ IsCont(s[3])
                   /\ (b = 224 => s[2] >= 160)
                   /\ (b = 237 => s[2] <= 159)
                   /\ ValidUtf8(SubSeq(s, 4, Len(s)))
         ELSE IF b >= 240 /\ b <= 244
              THEN /\ Len(s) >= 4
                   /\ IsCont(s[2])
                   /\ IsCont(s[3])
                   /\ IsCont(s[4])
                   /\ (b = 240 => s[2] >= 144)
                   /\ (b = 244 => s[2] <= 143)
                   /\ ValidUtf8(SubSeq(s, 5, Len(s)))
         ELSE FALSE

\* number of chars of a UTF-8 string: the bytes that are not continuation bytes
NumChars(s) == Cardinality({i \in 1..Len(s) : ~IsCont(s[i])})

-----------------------------------------------------------------------------
(* FmtBuf *)

\* FmtBuf::new: buf: [0; 64], ptr: 0
FmtNew == [buf |-> Rep(0, Capacity), ptr |-> 0]

\* a reset that leaves the cursor where it is
FmtResetKeepsCursor(b, p) == [buf |-> b, ptr |-> p]

\* FmtBuf::reset: self.ptr = 0 (the backing array is left as it is)
FmtReset(b, p) == [buf |-> b, ptr |-> 0]

\* a length that is not clamped to the remaining capacity
WriteLenUnclamped(rest_len, slen) == slen

\* write_str: let len = if rest_len < s.len() { rest_len } else { s.len() }
WriteLen(rest_len, slen) == IF rest_len < slen THEN rest_len ELSE slen

\* write_str: copy s[0..len] to buf[ptr..ptr+len], advance ptr, return Ok(())
WriteStr(b, p, s) ==
    LET rest_len == Capacity - p
        len      == WriteLen(rest_len, Len(s))
    IN  [buf |-> [i \in 1..Capacity |->
                    IF i > p /\ i <= p + len THEN s[i - p] ELSE b[i]],
         ptr |-> p + len,
         ret |-> "Ok",
         dstLo |-> p, dstHi |-> p + len, srcHi |-> len, srcLen |-> Len(s)]

\* as_str: core::str::from_utf8(&self.buf[0..self.ptr]).unwrap()
AsStr(b, p) ==
    LET bytes == SubSeq(b, 1, p)
    IN  IF ValidUtf8(bytes) THEN [ok |-> TRUE, s |-> bytes]
        ELSE [ok |-> FALSE, s |-> <<>>]

\* write!(&mut buf, "counter: {}", count): one write_str per piece
FormatCounter(b, p, n) ==
    LET w1 == WriteStr(b, p, CounterPrefix)
    IN  WriteStr(w1.buf, w1.ptr, ToDigits(n))

NoAccess == [dstLo |-> 0, dstHi |-> 0, srcHi |-> 0, srcLen |-> 0]

AccessOf(w) == [dstLo |-> w.dstLo, dstHi |-> w.dstHi,
                srcHi |-> w.srcHi, srcLen |-> w.srcLen]

-----------------------------------------------------------------------------
(* Calls on the display driver *)

\* a call without geometry: display.init(), display.reset(&mut rst, &mut delay)
CtrlCall(kind, ok) ==
    [op |-> kind, ok |-> ok, x0 |-> 0, y0 |-> 0, x1 |-> 0, y1 |-> 0,
     stroke |-> "NONE", sw |-> 0, fill |-> "NONE", text |-> <<>>]

\* DrawTarget::clear(&mut display, color): the whole panel
ClearCall(color, ok) ==
    [op |-> "clear", ok |-> ok, x0 |-> 0, y0 |-> 0, x1 |-> PanelW, y1 |-> PanelH,
     stroke |-> "NONE", sw |-> 0, fill |-> color, text |-> <<>>]

\* a border style that also fills
BorderStrokeWithFill == [stroke |-> "WHITE", width |-> BorderWidth, fill |-> "WHITE"]

\* border_stroke: stroke_color(WHITE), stroke_width(3), StrokeAlignment::Inside,
\* no fill colour
BorderStroke == [stroke |-> "WHITE", width |-> BorderWidth, fill |-> "NONE"]

\* blue: fill_color(BLUE), no stroke colour (the builder's stroke width is 0)
BlueStyle == [stroke |-> "NONE", width |-> 0, fill |-> "BLUE"]

\* Rectangle::new(Point::new(x, y), Size::new(w, h)).into_styled(style).draw(..)
RectCall(x, y, w, h, style, ok) ==
    [op |-> "rect", ok |-> ok, x0 |-> x, y0 |-> y, x1 |-> x + w, y1 |-> y + h,
     stroke |-> style.stroke, sw |-> style.width, fill |-> style.fill,
     text |-> <<>>]

\* Text::with_baseline(s, Point::new(x, y), text_style, Baseline::Top).draw(..):
\* one FontW x FontH glyph cell per char, left to right from the origin
TextCall(s, x, y, ok) ==
    [op |-> "text", ok |-> ok, x0 |-> x, y0 |-> y,
     x1 |-> x + FontW * NumChars(s), y1 |-> y + FontH,
     stroke |-> "RED", sw |-> 0, fill |-> "NONE", text |-> s]

\* a Result that is dropped instead of unwrapped: control goes on after Err
UnwrapIgnoresErr(ok, next) == next

\* .unwrap() on the Result of a driver call: Err panics, and the panic
\* handler (panic_halt / panic_probe) never returns
Unwrap(ok, next) == IF ok THEN next ELSE "panicked"

UnwrapCause(ok) == IF ok THEN "none" ELSE "bus"

\* a driver call followed by .unwrap()
Driver(call, next) ==
    /\ log' = Append(log, call)
    /\ pc' = Unwrap(call.ok, next)
    /\ panicCause' = UnwrapCause(call.ok)

\* statement order in which the init after the reset is missing
ThenWithoutReinit(p) ==
    CASE p = "init1"    -> "reset"
      [] p = "reset"    -> "clear"
      [] p = "init2"    -> "clear"
      [] p = "clear"    -> "border"
      [] p = "border"   -> "text1"
      [] p = "text1"    -> "text2"
      [] p = "text2"    -> "loop"
      [] p = "loop"     -> "bufreset"
      [] p = "bufreset" -> "format"
      [] p = "format"   -> "incr"
      [] p = "incr"     -> "erase"
      [] p = "erase"    -> "text"
      [] p = "text"     -> "delay"
      [] p = "delay"    -> "loop"

\* statement order in which the loop encloses the static drawing
ThenLoopRedrawsAll(p) ==
    CASE p = "init1"    -> "reset"
      [] p = "reset"    -> "init2"
      [] p = "init2"    -> "clear"
      [] p = "clear"    -> "border"
      [] p = "border"   -> "text1"
      [] p = "text1"    -> "text2"
      [] p = "text2"    -> "loop"
      [] p = "loop"     -> "bufreset"
      [] p = "bufreset" -> "format"
      [] p = "format"   -> "incr"
      [] p = "incr"     -> "erase"
      [] p = "erase"    -> "text"
      [] p = "text"     -> "delay"
      [] p = "delay"    -> "clear"

\* statement order in which the text is drawn before the erase
ThenTextBeforeErase(p) ==
    CASE p = "init1"    -> "reset"
      [] p = "reset"    -> "init2"
      [] p = "init2"    -> "clear"
      [] p = "clear"    -> "border"
      [] p = "border"   -> "text1"
      [] p = "text1"    -> "text2"
      [] p = "text2"    -> "loop"
      [] p = "loop"     -> "bufreset"
      [] p = "bufreset" -> "format"
      [] p = "format"   -> "incr"
      [] p = "incr"     -> "text"
      [] p = "text"     -> "erase"
      [] p = "erase"    -> "delay"
      [] p = "delay"    -> "loop"

\* statement order in which the increment is the last step of the cycle
ThenIncrementLast(p) ==
    CASE p = "init1"    -> "reset"
      [] p = "reset"    -> "init2"
      [] p = "init2"    -> "clear"
      [] p = "clear"    -> "border"
      [] p = "border"   -> "text1"
      [] p = "text1"    -> "text2"
      [] p = "text2"    -> "loop"
      [] p = "loop"     -> "bufreset"
      [] p = "bufreset" -> "format"
      [] p = "format"   -> "erase"
      [] p = "erase"    -> "text"
      [] p = "text"     -> "incr"
      [] p = "incr"     -> "delay"
      [] p = "delay"    -> "loop"

\* main's statement order: the statement control reaches after statement p
Then(p) ==
    CASE p = "init1"    -> "reset"
      [] p = "reset"    -> "init2"
      [] p = "init2"    -> "clear"
      [] p = "clear"    -> "border"
      [] p = "border"   -> "text1"
      [] p = "text1"    -> "text2"
      [] p = "text2"    -> "loop"
      [] p = "loop"     -> "bufreset"
      [] p = "bufreset" -> "format"
      [] p = "format"   -> "incr"
      [] p = "incr"     -> "erase"
      [] p = "erase"    -> "text"
      [] p = "text"     -> "delay"
      [] p = "delay"    -> "loop"

\* Point::new(10, 0), Point::new(10, 20): origins of the static labels
HelloWorldOrigin == [x |-> 10, y |-> 0]
HelloRustOrigin == [x |-> 10, y |-> 20]
\* Rectangle::new(Point::new(90, 40), Size::new(30, 18)): the erased rectangle
CounterRect == [x |-> 90, y |-> 40, w |-> 30, h |-> 18]
\* the per-tick text placed at the origin of the second static label
CounterOriginOnLabel == [x |-> 10, y |-> 20]

\* Point::new(10, 40): origin of the per-tick text
CounterOrigin == [x |-> 10, y |-> 40]

\* an erase whose rectangle differs between the two variants
EraseCallDrifted(v, ok) ==
    IF v = "embassy"
    THEN RectCall(CounterRect.x, CounterRect.y, CounterRect.w + FontW,
                  CounterRect.h, BlueStyle, ok)
    ELSE RectCall(CounterRect.x, CounterRect.y, CounterRect.w, CounterRect.h,
                  BlueStyle, ok)

\* the erase of variant v (the two files have the same statement):
\* Rectangle::new(Point::new(90, 40), Size::new(30, 18)).into_styled(blue).draw(..)
EraseCall(v, ok) ==
    RectCall(CounterRect.x, CounterRect.y, CounterRect.w, CounterRect.h,
             BlueStyle, ok)

\* the per-tick text draw of variant v (the two files have the same statement):
\* Text::with_baseline(buf.as_str(), Point::new(10, 40), text_style, Baseline::Top)
CounterTextCall(v, s, ok) == TextCall(s, CounterOrigin.x, CounterOrigin.y, ok)

bufGhost == <<written, lastOp, prevOp, lastArg, lastRet, access, nops>>

-----------------------------------------------------------------------------
(* main: one-time setup *)

\* display.init().unwrap();  (before the reset)
Init1 ==
    /\ pc = "init1"
    /\ \E ok \in BOOLEAN : Driver(CtrlCall("init", ok), Then("init1"))
    /\ UNCHANGED <<variant, overflowChecks, count, buf, ptr, led, rendered,
                   ticks, waited, bufGhost>>

\* display.reset(&mut rst, &mut delay).unwrap();
Reset ==
    /\ pc = "reset"
    /\ \E ok \in BOOLEAN : Driver(CtrlCall("reset", ok), Then("reset"))
    /\ UNCHANGED <<variant, overflowChecks, count, buf, ptr, led, rendered,
                   ticks, waited, bufGhost>>

\* display.init().unwrap();  (after the reset)
Init2 ==
    /\ pc = "init2"
    /\ \E ok \in BOOLEAN : Driver(CtrlCall("init", ok), Then("init2"))
    /\ UNCHANGED <<variant, overflowChecks, count, buf, ptr, led, rendered,
                   ticks, waited, bufGhost>>

\* DrawTarget::clear(&mut display, Rgb565::BLUE).unwrap();
Clear ==
    /\ pc = "clear"
    /\ \E ok \in BOOLEAN : Driver(ClearCall("BLUE", ok), Then("clear"))
    /\ UNCHANGED <<variant, overflowChecks, count, buf, ptr, led, rendered,
                   ticks, waited, bufGhost>>

\* display.bounding_box().into_styled(border_stroke).draw(&mut display).unwrap();
Border ==
    /\ pc = "border"
    /\ \E ok \in BOOLEAN :
          Driver(RectCall(0, 0, PanelW, PanelH, BorderStroke, ok), Then("border"))
    /\ UNCHANGED <<variant, overflowChecks, count, buf, ptr, led, rendered,
                   ticks, waited, bufGhost>>

\* Text::with_baseline("Hello world!", Point::new(10, 0), ..).draw(..).unwrap();
Text1 ==
    /\ pc = "text1"
    /\ \E ok \in BOOLEAN : Driver(TextCall(HelloWorld, HelloWorldOrigin.x, HelloWorldOrigin.y, ok), Then("text1"))
    /\ UNCHANGED <<variant, overflowChecks, count, buf, ptr, led, rendered,
                   ticks, waited, bufGhost>>

\* Text::with_baseline("Hello Rust!", Point::new(10, 20), ..).draw(..).unwrap();
\* let mut count: u32 = 0; let mut buf = FmtBuf::new();
Text2 ==
    /\ pc = "text2"
    /\ \E ok \in BOOLEAN : Driver(TextCall(HelloRust, HelloRustOrigin.x, HelloRustOrigin.y, ok), Then("text2"))
    /\ count' = U32Zero
    /\ buf' = FmtNew.buf
    /\ ptr' = FmtNew.ptr
    /\ lastOp' = "new"
    /\ prevOp' = lastOp
    /\ written' = <<>>
    /\ UNCHANGED <<variant, overflowChecks, led, rendered, ticks, waited,
                   lastArg, lastRet, access, nops>>

-----------------------------------------------------------------------------
(* main: the per-tick cycle *)

\* loop { led.set_high()
LoopHead ==
    /\ pc = "loop"
    /\ led' = TRUE
    /\ pc' = Then("loop")
    /\ UNCHANGED <<variant, overflowChecks, count, buf, ptr, log, panicCause,
                   rendered, ticks, waited, bufGhost>>

\* buf.reset();
BufReset ==
    /\ pc = "bufreset"
    /\ buf' = FmtReset(buf, ptr).buf
    /\ ptr' = FmtReset(buf, ptr).ptr
    /\ written' = <<>>
    /\ lastOp' = "reset"
    /\ prevOp' = lastOp
    /\ pc' = Then("bufreset")
    /\ UNCHANGED <<variant, overflowChecks, count, led, log, panicCause,
                   rendered, ticks, waited, lastArg, lastRet, access, nops>>

\* write!(&mut buf, "counter: {}", count).unwrap();
\* (write_str returns Ok unconditionally, so this unwrap cannot panic)
Format ==
    /\ pc = "format"
    /\ LET w == FormatCounter(buf, ptr, count) IN
         /\ buf' = w.buf
         /\ ptr' = w.ptr
         /\ access' = AccessOf(w)
         /\ lastRet' = (lastRet /\ w.ret = "Ok")
         /\ pc' = Unwrap(w.ret = "Ok", Then("format"))
         /\ panicCause' = UnwrapCause(w.ret = "Ok")
    /\ written' = written \o CounterPrefix \o ToDigits(count)
    /\ lastArg' = ToDigits(count)
    /\ lastOp' = "fmt"
    /\ prevOp' = lastOp
    /\ rendered' = count
    /\ UNCHANGED <<variant, overflowChecks, count, led, log, ticks, waited, nops>>

\* count += 1;  (u32: panics on overflow when overflow checks are on, wraps otherwise)
Increment ==
    /\ pc = "incr"
    /\ IF count = U32Max /\ overflowChecks
       THEN /\ pc' = "panicked"
            /\ panicCause' = "overflow"
            /\ count' = count
       ELSE /\ pc' = Then("incr")
            /\ panicCause' = panicCause
            /\ count' = WrappingInc(count)
    /\ UNCHANGED <<variant, overflowChecks, buf, ptr, led, log, rendered,
                   ticks, waited, bufGhost>>

\* Rectangle::new(Point::new(90, 40), Size::new(30, 18)).into_styled(blue)
\*     .draw(&mut display).unwrap();
Erase ==
    /\ pc = "erase"
    /\ \E ok \in BOOLEAN :
          Driver(EraseCall(variant, ok), Then("erase"))
    /\ UNCHANGED <<variant, overflowChecks, count, buf, ptr, led, rendered,
                   ticks, waited, bufGhost>>

\* Text::with_baseline(buf.as_str(), Point::new(10, 40), ..).draw(..).unwrap();
DrawCounter ==
    /\ pc = "text"
    /\ LET s == AsStr(buf, ptr) IN
         IF s.ok
         THEN \E ok \in BOOLEAN : Driver(CounterTextCall(variant, s.s, ok), Then("text"))
         ELSE /\ pc' = "panicked"
              /\ panicCause' = "utf8"
              /\ log' = log
    /\ UNCHANGED <<variant, overflowChecks, count, buf, ptr, led, rendered,
                   ticks, waited, bufGhost>>

\* the inter-tick wait of each variant
DelayMs(v) == IF v = "blocking" THEN BlockingDelayMs ELSE EmbassyDelayMs

\* led.set_low(); delay.delay_ms(500) / Timer::after(Duration::from_secs(1)).await; }
Delay ==
    /\ pc = "delay"
    /\ ticks < MaxTicks
    /\ led' = FALSE
    /\ waited' = DelayMs(variant)
    /\ ticks' = ticks + 1
    /\ pc' = Then("delay")
    /\ UNCHANGED <<variant, overflowChecks, count, buf, ptr, log, panicCause,
                   rendered, bufGhost>>

-----------------------------------------------------------------------------
(* The whole program, from the first driver call *)

Init ==
    /\ variant \in {"blocking", "embassy"}
    /\ overflowChecks \in BOOLEAN
    /\ pc = "init1"
    /\ count = U32Zero
    /\ buf = FmtNew.buf
    /\ ptr = FmtNew.ptr
    /\ led = FALSE
    /\ log = <<>>
    /\ panicCause = "none"
    /\ rendered = NoValue
    /\ ticks = 0
    /\ waited = 0
    /\ written = <<>>
    /\ lastOp = "new"
    /\ prevOp = "new"
    /\ lastArg = <<>>
    /\ lastRet = TRUE
    /\ access = NoAccess
    /\ nops = 0

Setup == Init1 \/ Reset \/ Init2 \/ Clear \/ Border \/ Text1 \/ Text2

Cycle == LoopHead \/ BufReset \/ Format \/ Increment \/ Erase \/ DrawCounter \/ Delay

Next == Setup \/ Cycle

Spec == Init /\ [][Next]_vars

-----------------------------------------------------------------------------
(* The render loop from an arbitrary counter value.                        *)
(* After c completed cycles main is at the head of the loop with count = c *)
(* and the buffer holding the text of cycle c - 1.  LoopCounts picks such  *)
(* loop-head states; the trace `log` holds the setup calls, then the calls *)
(* issued from the snapshot on (the calls of the cycles before it are not  *)
(* kept).                                                                  *)

\* the driver calls of a setup in which every call returned Ok
SetupLog ==
    << CtrlCall("init", TRUE), CtrlCall("reset", TRUE), CtrlCall("init", TRUE),
       ClearCall("BLUE", TRUE),
       RectCall(0, 0, PanelW, PanelH, BorderStroke, TRUE),
       TextCall(HelloWorld, HelloWorldOrigin.x, HelloWorldOrigin.y, TRUE),
       TextCall(HelloRust, HelloRustOrigin.x, HelloRustOrigin.y, TRUE) >>

\* counter values at which the loop is entered: 0, the values around each
\* change of the number of digits that matters for the layout, 41, and the
\* two largest values
LoopCounts ==
    { U32Zero, U32Of(9), U32Of(41), U32Of(99), U32Of(999), U32Of(1000),
      U32Of(9999), U32Of(10000), <<15258, 51711>>, WrappingDec(U32Max), U32Max }

InitLoop ==
    /\ variant \in {"blocking", "embassy"}
    /\ overflowChecks \in BOOLEAN
    /\ pc = "loop"
    /\ count \in LoopCounts
    /\ led = FALSE
    /\ log = SetupLog
    /\ panicCause = "none"
    /\ ticks = 0
    /\ nops = 0
    /\ lastRet = TRUE
    /\ IF count = U32Zero
       THEN /\ buf = FmtNew.buf
            /\ ptr = FmtNew.ptr
            /\ rendered = NoValue
            /\ waited = 0
            /\ written = <<>>
            /\ lastOp = "new"
            /\ prevOp = "new"
            /\ lastArg = <<>>
            /\ access = NoAccess
       ELSE LET prev == WrappingDec(count)
                w    == FormatCounter(FmtNew.buf, 0, prev)
            IN  /\ buf = w.buf
                /\ ptr = w.ptr
                /\ rendered = prev
                /\ waited = DelayMs(variant)
                /\ written = CounterPrefix \o ToDigits(prev)
                /\ lastOp = "fmt"
                /\ prevOp = "reset"
                /\ lastArg = ToDigits(prev)
                /\ access = AccessOf(w)

SpecLoop == InitLoop /\ [][Cycle]_vars

-----------------------------------------------------------------------------
(* FmtBuf on its own: any sequence of new, reset and write_str *)

Ascii(b, n) == Rep(b, n)

\* the strings written: empty, one char of 1, 2, 3 and 4 bytes, and runs
\* that end before, at and after the capacity
InputStrings ==
    { <<>>,
      <<97>>,
      <<195, 169>>,
      <<226, 130, 172>>,
      <<240, 159, 152, 128>>,
      Ascii(98, Capacity \div 2),
      Ascii(99, Capacity - 1),
      Ascii(100, Capacity),
      Ascii(101, Capacity + 1),
      Ascii(102, Capacity - 1) \o <<195, 169>> }

InitBuf ==
    /\ variant = "blocking"
    /\ overflowChecks = FALSE
    /\ pc = "fmtbuf"
    /\ count = U32Zero
    /\ buf = FmtNew.buf
    /\ ptr = FmtNew.ptr
    /\ led = FALSE
    /\ log = <<>>
    /\ panicCause = "none"
    /\ rendered = NoValue
    /\ ticks = 0
    /\ waited = 0
    /\ written = <<>>
    /\ lastOp = "new"
    /\ prevOp = "new"
    /\ lastArg = <<>>
    /\ lastRet = TRUE
    /\ access = NoAccess
    /\ nops = 0

\* FmtBuf::new()
CallNew ==
    /\ pc = "fmtbuf"
    /\ nops < MaxBufOps
    /\ buf' = FmtNew.buf
    /\ ptr' = FmtNew.ptr
    /\ written' = <<>>
    /\ lastOp' = "new"
    /\ prevOp' = lastOp
    /\ nops' = nops + 1
    /\ UNCHANGED <<mainVars, lastArg, lastRet, access>>

\* buf.reset()
CallReset ==
    /\ pc = "fmtbuf"
    /\ nops < MaxBufOps
    /\ buf' = FmtReset(buf, ptr).buf
    /\ ptr' = FmtReset(buf, ptr).ptr
    /\ written' = <<>>
    /\ lastOp' = "reset"
    /\ prevOp' = lastOp
    /\ nops' = nops + 1
    /\ UNCHANGED <<mainVars, lastArg, lastRet, access>>

\* buf.write_str(s)
CallWriteStr ==
    /\ pc = "fmtbuf"
    /\ nops < MaxBufOps
    /\ \E s \in InputStrings :
         LET w == WriteStr(buf, ptr, s) IN
           /\ buf' = w.buf
           /\ ptr' = w.ptr
           /\ access' = AccessOf(w)
           /\ lastRet' = (lastRet /\ w.ret = "Ok")
           /\ written' = written \o s
           /\ lastArg' = s
    /\ lastOp' = "write"
    /\ prevOp' = lastOp
    /\ nops' = nops + 1
    /\ UNCHANGED mainVars

NextBuf == CallNew \/ CallReset \/ CallWriteStr

SpecBuf == InitBuf /\ [][NextBuf]_vars

-----------------------------------------------------------------------------
(* Vocabulary of the properties *)

IsDraw(e) == e.op \in {"clear", "rect", "text"}

\* the entries of the trace issued by the per-tick cycles
CycleEntries == {i \in 1..Len(log) : i > Len(SetupLog)}

\* the extent of call e lies inside [x0, x1) x [y0, y1)
Inside(e, x0, y0, x1, y1) ==
    e.x0 >= x0 /\ e.y0 >= y0 /\ e.x1 <= x1 /\ e.y1 <= y1

\* the extent of call e meets [x0, x1) x [y0, y1)
Meets(e, x0, y0, x1, y1) ==
    e.x0 < x1 /\ x0 < e.x1 /\ e.y0 < y1 /\ y0 < e.y1

\* the extent of call e meets the border: the ring of width BorderWidth
\* along the panel's edges
MeetsBorder(e) ==
    \/ Meets(e, 0, 0, PanelW, BorderWidth)
    \/ Meets(e, 0, PanelH - BorderWidth, PanelW, PanelH)
    \/ Meets(e, 0, 0, BorderWidth, PanelH)
    \/ Meets(e, PanelW - BorderWidth, 0, PanelW, PanelH)

\* the extent of call e meets a static label's glyph cells
MeetsStaticText(e) ==
    \/ Meets(e, HelloWorldOrigin.x, HelloWorldOrigin.y,
             HelloWorldOrigin.x + FontW * Len(HelloWorld), HelloWorldOrigin.y + FontH)
    \/ Meets(e, HelloRustOrigin.x, HelloRustOrigin.y,
             HelloRustOrigin.x + FontW * Len(HelloRust), HelloRustOrigin.y + FontH)

-----------------------------------------------------------------------------
(* C1 *)

\* C1 (as stated): no controller command is issued before the hardware
\* reset has completed: every init call in the trace comes after a reset
\* call that returned Ok.
C1_NoCommandBeforeReset ==
    \A i \in 1..Len(log) :
        log[i].op = "init" =>
            \E j \in 1..(i - 1) : log[j].op = "reset" /\ log[j].ok

-----------------------------------------------------------------------------
(* C2 *)

\* the controller is Ready after the calls l: a reset that returned Ok, then
\* an init that returned Ok, and no reset after that init
ReadyAfter(l) ==
    \E r \in 1..Len(l) : \E k \in (r + 1)..Len(l) :
        /\ l[r].op = "reset" /\ l[r].ok
        /\ l[k].op = "init" /\ l[k].ok
        /\ \A m \in (k + 1)..Len(l) : l[m].op # "reset"

\* C2: no draw call (clear, border, rectangle, text) is issued while the
\* controller is not Ready: every draw call in the trace is preceded by a
\* completed reset followed by a completed init, with no reset after it.
C2_DrawOnlyWhenReady ==
    \A i \in 1..Len(log) :
        IsDraw(log[i]) => ReadyAfter(SubSeq(log, 1, i - 1))

\* a per-tick text draw has been issued
C2_Witness ==
    /\ Len(log) > Len(SetupLog)
    /\ log[Len(log)].op = "text"
    /\ log[Len(log)].y0 = CounterOrigin.y

-----------------------------------------------------------------------------
(* C3 *)

-----------------------------------------------------------------------------
(* C4 *)

\* C4 (as stated): when the counter holds 4294967295, the increment wraps it
\* to 0 without raising an error: once the cycle that rendered 4294967295
\* has incremented, the counter is 0 and main has not panicked on overflow.
C4_WrapsToZero ==
    (rendered = U32Max /\ pc # "incr") =>
        (count = U32Zero /\ panicCause # "overflow")

-----------------------------------------------------------------------------
(* C5 *)

\* C5: after any sequence of new, reset and write_str the cursor is in
\* 0..64, the array keeps its 64 cells, and the last write_str touched only
\* buf[ptr .. ptr+len) inside [0, 64) and s[0 .. len) inside s, with
\* len = min(s.len(), 64 - ptr): what does not fit is dropped.
C5_CursorInBounds ==
    /\ ptr >= 0 /\ ptr <= Capacity
    /\ DOMAIN buf = 1..Capacity
    /\ access.dstLo >= 0
    /\ access.dstLo <= access.dstHi
    /\ access.dstHi <= Capacity
    /\ access.srcHi <= access.srcLen
    /\ access.dstHi - access.dstLo = Min(access.srcLen, Capacity - access.dstLo)
    /\ lastOp = "write" => ptr = access.dstHi

\* a write_str whose input did not fit has filled the buffer
C5_Witness ==
    /\ lastOp = "write"
    /\ access.srcHi < access.srcLen
    /\ access.dstLo > 0
    /\ ptr = Capacity

-----------------------------------------------------------------------------
(* C6 *)

\* C6 (as stated): every write_str returned Ok, and as_str returns exactly
\* the first min(total bytes written, 64) bytes of the concatenation of the
\* strings written since new or reset.
C6_AsStrReturnsWritten ==
    /\ lastRet
    /\ AsStr(buf, ptr) =
          [ok |-> TRUE, s |-> SubSeq(written, 1, Min(Len(written), Capacity))]

-----------------------------------------------------------------------------
(* C7 *)

\* C7 (as stated): the bytes of the buffer in [0, cursor) are valid UTF-8
\* after every write_str, so as_str never panics.
C7_ContentValidUtf8 ==
    ValidUtf8(SubSeq(buf, 1, ptr))

-----------------------------------------------------------------------------
(* C8 *)

\* C8: reset restores the buffer to empty whatever it held: right after
\* reset the cursor is 0 and as_str returns the empty string, and after a
\* write_str of S that follows a reset the bytes in [0, cursor) are exactly
\* the first min(len(S), 64) bytes of S, although the array is not cleared.
C8_ResetRestoresEmpty ==
    /\ lastOp = "reset" =>
          /\ ptr = 0
          /\ AsStr(buf, ptr) = [ok |-> TRUE, s |-> <<>>]
    /\ (lastOp = "write" /\ prevOp = "reset") =>
          /\ ptr = Min(Len(lastArg), Capacity)
          /\ SubSeq(buf, 1, ptr) = SubSeq(lastArg, 1, Min(Len(lastArg), Capacity))

\* a write after a reset, with bytes of the earlier content still in the
\* array beyond the cursor
C8_Witness ==
    /\ lastOp = "write"
    /\ prevOp = "reset"
    /\ ptr > 0
    /\ ptr < Capacity
    /\ buf[ptr + 1] # 0

-----------------------------------------------------------------------------
(* C9 *)

\* C9: a failed reset, init or draw is fatal and terminal: a call that
\* returned Err is the last call of the trace, main has panicked, and after
\* a panic no statement of main runs any more.
C9_FailureIsTerminal ==
    /\ \A i \in 1..Len(log) :
          ~log[i].ok => (i = Len(log) /\ pc = "panicked" /\ panicCause = "bus")
    /\ pc = "panicked" => ~ENABLED Next

\* a draw of a per-tick cycle has failed
C9_Witness ==
    /\ pc = "panicked"
    /\ panicCause = "bus"
    /\ Len(log) > Len(SetupLog)
    /\ ~log[Len(log)].ok

-----------------------------------------------------------------------------
(* C10 *)

\* the four static draws, by position in the setup
StaticDraw(k) == SetupLog[3 + k]

SameCall(e, f) == [e EXCEPT !.ok = TRUE] = [f EXCEPT !.ok = TRUE]

\* C10: the setup issues clear(BLUE), the border, "Hello world!" and
\* "Hello Rust!" in this order, each once, before the first per-tick cycle,
\* and none of them is issued again: a static draw occurs in the trace only
\* at its place in the setup, and once main is in the loop all four are there.
C10_SetupOnceInOrder ==
    /\ \A i \in 1..Len(log) : \A k \in 1..4 :
          SameCall(log[i], StaticDraw(k)) => i = 3 + k
    /\ pc \in {"loop", "bufreset", "format", "incr", "erase", "text", "delay"} =>
          /\ Len(log) >= Len(SetupLog)
          /\ \A k \in 1..4 : log[3 + k] = StaticDraw(k)

\* a second per-tick cycle is under way
C10_Witness ==
    /\ pc = "text"
    /\ ticks >= 1
    /\ Len(log) >= Len(SetupLog) + 3

-----------------------------------------------------------------------------
(* The Draw Target's effect on the panel's frame (design sections 4.4, 8). *)
(* The driver's code is not in the repository: what a call paints is taken *)
(* from the design, and the glyph bitmaps, which are font data, range over *)
(* GlyphPatterns.                                                          *)

GlyphPatterns == {"blank", "solid", "dots"}

\* bit (cx, cy) of the glyph of char ch under pattern g
GlyphBit(g, ch, cx, cy) ==
    CASE g = "blank" -> FALSE
      [] g = "solid" -> TRUE
      [] g = "dots"  -> (cx + cy + ch) % 2 = 0

\* pixel (x, y) lies in the extent of call e
InExtent(e, x, y) == x >= e.x0 /\ x < e.x1 /\ y >= e.y0 /\ y < e.y1

\* pixel (x, y) lies on the stroke of rectangle e: alignment Inside, so the
\* stroke is the ring of width e.sw inside the rectangle's bounds
InStroke(e, x, y) ==
    /\ InExtent(e, x, y)
    /\ ~(/\ x >= e.x0 + e.sw /\ x < e.x1 - e.sw
         /\ y >= e.y0 + e.sw /\ y < e.y1 - e.sw)

\* colour of pixel (x, y) after call e, when it was `under` before: clear
\* sets every pixel; a rectangle paints its fill, then its stroke; a text
\* paints the set bits of each glyph and leaves the clear bits as they were;
\* what a failed call leaves in its extent is not known
PaintPixel(e, x, y, under, g) ==
    IF e.op \in {"init", "reset"} THEN under
    ELSE IF ~InExtent(e, x, y) THEN under
    ELSE IF ~e.ok THEN "UNKNOWN"
    ELSE IF e.op = "clear" THEN e.fill
    ELSE IF e.op = "rect"
         THEN IF e.stroke # "NONE" /\ e.sw > 0 /\ InStroke(e, x, y) THEN e.stroke
              ELSE IF e.fill # "NONE" THEN e.fill
              ELSE under
    ELSE IF GlyphBit(g, e.text[((x - e.x0) \div FontW) + 1],
                     (x - e.x0) % FontW, y - e.y0)
         THEN e.stroke
         ELSE under

\* colour of pixel (x, y) after the calls l, from a panel of unknown content
RECURSIVE PixelAfter(_, _, _, _)
PixelAfter(l, x, y, g) ==
    IF Len(l) = 0 THEN "UNKNOWN"
    ELSE PaintPixel(l[Len(l)], x, y,
                    PixelAfter(SubSeq(l, 1, Len(l) - 1), x, y, g), g)

-----------------------------------------------------------------------------
(* C11 *)

\* pixel (x, y) is a set glyph bit of the text s drawn from origin (ox, oy)
LabelBit(s, ox, oy, x, y, g) ==
    /\ x >= ox /\ x < ox + 9 * Len(s)
    /\ y >= oy /\ y < oy + 18
    /\ GlyphBit(g, s[((x - ox) \div 9) + 1], (x - ox) % 9, y - oy)

\* the frame the setup is to leave: the labels' set glyph bits RED, else the
\* 3-pixel ring along the panel's edges WHITE, else BLUE
SetupFrame(x, y, g) ==
    IF LabelBit(HelloWorld, 10, 0, x, y, g) \/ LabelBit(HelloRust, 10, 20, x, y, g)
    THEN "RED"
    ELSE IF x < 3 \/ y < 3 \/ x >= PanelW - 3 \/ y >= PanelH - 3
    THEN "WHITE"
    ELSE "BLUE"

\* C11: after reset, init, clear(BLUE), the border draw and the two static
\* text draws, every pixel of the panel is RED on a set glyph bit of
\* "Hello world!" at (10,0) or "Hello Rust!" at (10,20), WHITE on the border
\* of width 3 inside the panel's bounds, and BLUE elsewhere; the border draw
\* has no fill, and no draw after the clear paints the background colour.
C11_SetupFrame ==
    (pc = "loop" /\ ticks = 0 /\ Len(log) = Len(SetupLog)) =>
        /\ log[4].op = "clear" /\ log[4].fill = "BLUE"
        /\ log[5].op = "rect" /\ log[5].fill = "NONE" /\ log[5].sw = 3
        /\ \A i \in 5..Len(log) : log[i].fill = "NONE"
        /\ \A g \in GlyphPatterns :
              \A x \in 0..(PanelW - 1) : \A y \in 0..(PanelH - 1) :
                 PixelAfter(log, x, y, g) = SetupFrame(x, y, g)

\* the setup has completed: a border pixel, an interior pixel and a glyph
\* pixel show the three colours
C11_Witness ==
    /\ pc = "loop" /\ ticks = 0 /\ Len(log) = Len(SetupLog)
    /\ PixelAfter(log, 0, 0, "blank") = "WHITE"
    /\ PixelAfter(log, 64, 64, "solid") = "BLUE"
    /\ PixelAfter(log, 10, 25, "solid") = "RED"

-----------------------------------------------------------------------------
(* The controller behind the driver (design section 4.3).  Its code is not *)
(* in the repository: reset and init are taken from the design.            *)

CtrlRegs == {"display", "remap", "contrast"}

\* the fixed init command sequence: display off, set remap / colour depth,
\* set contrast, display on
InitCommands ==
    << [reg |-> "display", val |-> "off"],
       [reg |-> "remap", val |-> "rgb565"],
       [reg |-> "contrast", val |-> "set"],
       [reg |-> "display", val |-> "on"] >>

\* the controller before any call
CtrlUnpowered == [phase |-> "Unpowered", regs |-> [r \in CtrlRegs |-> "undefined"]]

\* the commands a call sends over the link
CommandsOf(e) == IF e.op = "init" /\ e.ok THEN InitCommands ELSE <<>>

\* the registers after the commands cmds, applied in order
RECURSIVE ApplyCommands(_, _)
ApplyCommands(regs, cmds) ==
    IF Len(cmds) = 0 THEN regs
    ELSE ApplyCommands([regs EXCEPT ![cmds[1].reg] = cmds[1].val], Tail(cmds))

\* the controller after call e: a hardware reset puts every register at its
\* power-on default; an init programs the registers, and completes the
\* protocol (Ready) when a hardware reset came before it; a failed reset or
\* init leaves the controller in no defined state; draws leave it as it is
CtrlStep(c, e) ==
    IF e.op \notin {"reset", "init"} THEN c
    ELSE IF ~e.ok THEN [phase |-> "Failed", regs |-> [r \in CtrlRegs |-> "undefined"]]
    ELSE IF e.op = "reset"
         THEN [phase |-> "HardwareReset", regs |-> [r \in CtrlRegs |-> "default"]]
    ELSE [phase |-> IF c.phase \in {"HardwareReset", "Ready"} THEN "Ready" ELSE c.phase,
          regs  |-> ApplyCommands(c.regs, CommandsOf(e))]

\* the controller after the calls l
RECURSIVE CtrlAfter(_)
CtrlAfter(l) ==
    IF Len(l) = 0 THEN CtrlUnpowered
    ELSE CtrlStep(CtrlAfter(SubSeq(l, 1, Len(l) - 1)), l[Len(l)])

-----------------------------------------------------------------------------
(* C12 *)

-----------------------------------------------------------------------------
(* C13 *)

\* the i-th driver call of variant v, the calls before it having returned
\* Ok: the setup calls, then for each cycle k = 0, 1, .. the erase and the
\* text of counter value k
ExpectedCall(v, i, ok) ==
    LET j == i - Len(SetupLog) IN
    IF j <= 0 THEN [SetupLog[i] EXCEPT !.ok = ok]
    ELSE IF j % 2 = 1 THEN EraseCall(v, ok)
    ELSE CounterTextCall(v, CounterPrefix \o ToDigits(U32Of((j \div 2) - 1)), ok)

\* both variants issue the same calls with the same arguments and counter
\* values, and differ in the length of the wait
SameCallsInBothVariants ==
    /\ \A i \in 1..Len(log) :
          /\ log[i] = ExpectedCall("blocking", i, log[i].ok)
          /\ log[i] = ExpectedCall("embassy", i, log[i].ok)
    /\ waited = IF ticks = 0 THEN 0
                ELSE IF variant = "blocking" THEN 500 ELSE 1000

\* time passes in the render loop only at the inter-tick wait, and the wait
\* issues no driver call and touches neither the buffer nor the counter
OnlyTheWaitSuspends ==
    (ticks' # ticks \/ waited' # waited) =>
        (pc = "delay" /\ pc' = "loop" /\ UNCHANGED <<log, buf, ptr, count>>)

-----------------------------------------------------------------------------
(* C14 *)

\* C14: in every per-tick cycle the buffer reset precedes the formatting,
\* the formatting precedes the erase (fill BLUE, no stroke), and the erase
\* precedes the counter text draw; a cycle issues one erase and one text
\* draw, and the text draw only after the erase of its cycle returned Ok.
C14_CycleOrder ==
    /\ \A i \in CycleEntries :
          IF (i - Len(SetupLog)) % 2 = 1
          THEN /\ log[i].op = "rect"
               /\ log[i].fill = "BLUE"
               /\ log[i].stroke = "NONE"
          ELSE /\ log[i].op = "text"
               /\ log[i - 1].op = "rect"
               /\ log[i - 1].ok
    /\ pc \in {"loop", "bufreset", "format", "incr", "erase"} =>
          Len(log) = Len(SetupLog) + 2 * ticks
    /\ pc = "format" => lastOp = "reset"
    /\ pc \in {"incr", "erase", "text", "delay"} =>
          (lastOp = "fmt" /\ prevOp = "reset")
    /\ pc = "text" => Len(log) = Len(SetupLog) + 2 * ticks + 1
    /\ pc = "delay" => Len(log) = Len(SetupLog) + 2 * ticks + 2
    /\ (pc = "panicked" /\ Len(log) > Len(SetupLog)) =>
          /\ lastOp = "fmt" /\ prevOp = "reset"
          /\ Len(log) \in {Len(SetupLog) + 2 * ticks + 1, Len(SetupLog) + 2 * ticks + 2}

\* the second cycle has issued its erase and its text
C14_Witness ==
    /\ pc = "delay"
    /\ ticks = 1
    /\ Len(log) = Len(SetupLog) + 4
    /\ log[Len(log) - 1].op = "rect"
    /\ log[Len(log)].op = "text"

-----------------------------------------------------------------------------
(* C15 *)

\* the decimal representation of a natural number
RECURSIVE DecimalOf(_)
DecimalOf(n) ==
    IF n < 10 THEN <<48 + n>> ELSE Append(DecimalOf(n \div 10), 48 + (n % 10))

\* the u32 a string of decimal digits denotes
RECURSIVE ParseDecimal(_)
ParseDecimal(d) ==
    IF Len(d) = 0 THEN U32Zero
    ELSE LET c  == ParseDecimal(SubSeq(d, 1, Len(d) - 1))
             lo == c[2] * 10 + (d[Len(d)] - 48)
         IN  <<c[1] * 10 + (lo \div Limb), lo % Limb>>

\* the text drawn by the cycle with index k (k = 0 is the first cycle)
CycleText(k) == log[Len(SetupLog) + 2 * k + 2].text

\* Below the wrap: from power-on the cycle with index k draws "counter: "
\* followed by the decimal representation of k, and consecutive cycles draw
\* consecutive values.
RendersCycleIndexBelowWrap ==
    /\ \A i \in CycleEntries :
          log[i].op = "text" =>
             /\ log[i].text = CounterPrefix \o DecimalOf(((i - Len(SetupLog)) \div 2) - 1)
             /\ ParseDecimal(SubSeq(log[i].text, Len(CounterPrefix) + 1, Len(log[i].text)))
                   = U32Of(((i - Len(SetupLog)) \div 2) - 1)
    /\ pc \in {"loop", "bufreset", "format"} => count = U32Of(ticks)
    /\ pc \in {"incr", "erase", "text", "delay"} => rendered = U32Of(ticks)
    /\ pc = "delay" =>
          /\ CycleText(ticks) = CounterPrefix \o ToDigits(rendered)
          /\ ticks > 0 =>
                ParseDecimal(SubSeq(CycleText(ticks), Len(CounterPrefix) + 1,
                                    Len(CycleText(ticks))))
                  = WrappingInc(ParseDecimal(SubSeq(CycleText(ticks - 1),
                                    Len(CounterPrefix) + 1, Len(CycleText(ticks - 1)))))
    /\ \A c \in LoopCounts : ParseDecimal(ToDigits(c)) = c

\* the cycle after the one that drew 9 has drawn 10
Renders9Then10 ==
    /\ pc = "delay"
    /\ ticks = 10
    /\ CycleText(9) = CounterPrefix \o <<57>>
    /\ CycleText(10) = CounterPrefix \o <<49, 48>>

\* C15: every cycle renders the value the counter held when the cycle began,
\* for every value k mod 2^32: a cycle that has formatted its value and met
\* no bus failure goes on to draw "counter: " followed by that value, and the
\* next cycle begins with the value one higher (mod 2^32), so no value is
\* skipped and none is rendered twice.
C15_EveryCycleRendersItsValue ==
    /\ (lastOp = "fmt" /\ pc \in {"delay", "panicked"} /\ panicCause # "bus") =>
          /\ Len(log) > Len(SetupLog)
          /\ log[Len(log)].op = "text"
          /\ log[Len(log)].ok
          /\ log[Len(log)].text = CounterPrefix \o ToDigits(rendered)
          /\ ParseDecimal(SubSeq(log[Len(log)].text, Len(CounterPrefix) + 1,
                                 Len(log[Len(log)].text))) = rendered
          /\ count = WrappingInc(rendered)
    /\ pc \in {"incr", "erase", "text"} => panicCause = "none"

-----------------------------------------------------------------------------
(* C16 *)

\* the cycle in progress stopped in a failed erase or text draw
CycleDrawFailed ==
    /\ pc = "panicked"
    /\ panicCause = "bus"
    /\ Len(log) > Len(SetupLog)
    /\ ~log[Len(log)].ok

\* C16 as stated: the counter is incremented as the last step of the cycle,
\* after the erase and the text draw, so while the draws are pending, and
\* after one of them failed, the counter holds the value the cycle began with.
C16_IncrementIsLast ==
    /\ pc \in {"erase", "text"} => count = rendered
    /\ CycleDrawFailed => count = rendered

\* C16 amended: the counter is incremented right after the text has been
\* formatted and before the erase and the text draw, so while the draws are
\* pending, during the wait, and after a failed draw, the counter is one above
\* the value the cycle began with and rendered (mod 2^32).
C16_IncrementBeforeDraws ==
    /\ pc = "incr" => (count = rendered /\ lastOp = "fmt")
    /\ pc \in {"erase", "text", "delay"} =>
          /\ count = WrappingInc(rendered)
          /\ count # rendered
          /\ lastOp = "fmt"
    /\ CycleDrawFailed =>
          /\ count = WrappingInc(rendered)
          /\ count # rendered
    /\ pc = "erase" => Len(log) = Len(SetupLog) + 2 * ticks
    /\ pc = "text" =>
          /\ Len(log) = Len(SetupLog) + 2 * ticks + 1
          /\ log[Len(log)].op = "rect"

\* a text draw failed and left the counter one above the value of its cycle
C16_Witness ==
    /\ CycleDrawFailed
    /\ log[Len(log)].op = "text"
    /\ log[Len(log)].text = CounterPrefix \o ToDigits(rendered)
    /\ count = WrappingInc(rendered)

-----------------------------------------------------------------------------
(* C17 *)

\* no driver call has returned a bus or protocol failure so far
NoBusFailure == \A i \in 1..Len(log) : log[i].ok

\* C17: in the absence of a bus or protocol failure the render loop never
\* terminates, and the only way the loop exits is an unrecoverable bus or
\* protocol failure: a run whose driver calls all succeeded has not halted,
\* and a halted run halted in a failed driver call.
C17_OnlyBusFailureExits ==
    /\ NoBusFailure => pc # "panicked"
    /\ pc = "panicked" =>
          /\ panicCause = "bus"
          /\ ~log[Len(log)].ok

-----------------------------------------------------------------------------
(* C18 *)

\* the glyph cell of the j-th character of text draw e
GlyphCell(e, j) ==
    [x0 |-> e.x0 + FontW * (j - 1), y0 |-> e.y0,
     x1 |-> e.x0 + FontW * j,       y1 |-> e.y0 + FontH]

\* the positions of the counter's digits in text draw e
DigitPositions(e) == (Len(CounterPrefix) + 1)..Len(e.text)

\* C18: for every counter value, every glyph cell of the counter's digits
\* lies inside the rectangle erased in the same cycle, so that no pixel of a
\* previously drawn digit survives into the next render.
C18_EraseCoversDigits ==
    \A i \in CycleEntries :
        log[i].op = "text" =>
           /\ log[i - 1].op = "rect"
           /\ log[i - 1].fill = "BLUE"
           /\ \A j \in DigitPositions(log[i]) :
                 Inside(GlyphCell(log[i], j),
                        log[i - 1].x0, log[i - 1].y0, log[i - 1].x1, log[i - 1].y1)

-----------------------------------------------------------------------------
(* C19 *)

\* C19: every point the render loop asks to write lies inside the panel: for
\* every counter value, every glyph cell of the per-tick text and the erase
\* rectangle satisfy 0 <= x < PanelW and 0 <= y < PanelH.
C19_CycleWritesInsidePanel ==
    \A i \in CycleEntries :
        /\ log[i].op = "rect" => Inside(log[i], 0, 0, PanelW, PanelH)
        /\ log[i].op = "text" =>
              \A j \in 1..Len(log[i].text) :
                  Inside(GlyphCell(log[i], j), 0, 0, PanelW, PanelH)

-----------------------------------------------------------------------------
(* C20 *)

\* 10^k
RECURSIVE Pow10(_)
Pow10(k) == IF k = 0 THEN 1 ELSE 10 * Pow10(k - 1)

\* a < b on u32 values
U32Lt(a, b) == a[1] < b[1] \/ (a[1] = b[1] /\ a[2] < b[2])

\* the number of decimal digits of the u32 c
DigitCount(c) == 1 + Cardinality({k \in 1..9 : ~U32Lt(c, U32Of(Pow10(k)))})

\* C20: in the render loop the buffer's truncation never triggers: for every
\* counter value, after reset followed by formatting "counter: {count}", the
\* cursor equals 9 plus the number of decimal digits of the counter (at most
\* 19, below the capacity), every byte handed to write_str was copied, and
\* as_str returns the complete formatted text.
C20_LoopNeverTruncates ==
    lastOp = "fmt" =>
       /\ prevOp = "reset"
       /\ ptr = Len(CounterPrefix) + DigitCount(rendered)
       /\ Len(CounterPrefix) = 9
       /\ ptr <= 19
       /\ ptr < Capacity
       /\ access.srcHi = access.srcLen
       /\ access.srcLen = DigitCount(rendered)
       /\ access.dstHi = ptr
       /\ lastRet
       /\ AsStr(buf, ptr).ok
       /\ AsStr(buf, ptr).s = CounterPrefix \o ToDigits(rendered)
       /\ AsStr(buf, ptr).s = written
       /\ ParseDecimal(SubSeq(AsStr(buf, ptr).s, Len(CounterPrefix) + 1, ptr)) = rendered

\* the longest text, "counter: 4294967295", has just been formatted
C20_Witness ==
    /\ pc = "incr"
    /\ lastOp = "fmt"
    /\ ticks = 1
    /\ rendered = U32Max
    /\ ptr = 19
    /\ AsStr(buf, ptr).s = CounterPrefix \o <<52, 50, 57, 52, 57, 54, 55, 50, 57, 53>>

====
